---- MODULE Spec2Model ----
(***************************************************************************)
(* Streaming JSON assemblers of jogingras/jsonparse.                       *)
(*                                                                         *)
(*   createClarinetAssembler   src/src/clarinet-stream-parser.ts 13-217    *)
(*   createStreamJsonAssembler src/src/schemas.ts 225-295                  *)
(*                                                                         *)
(* Text is a sequence of one-character strings.  A JavaScript value is a   *)
(* record [k, v]: k is its kind, v its payload.  Objects are sequences of  *)
(* <<key, value>> pairs in insertion order (the order JSON.stringify and   *)
(* Object.keys use); the containers the event-driven assembler mutates in  *)
(* place live in a heap and are named by references.                       *)
(***************************************************************************)
EXTENDS Integers, Sequences, FiniteSets, TLC

\* ------------------------------------------------------------ characters
LB == "{"
RB == "}"
LK == "["
RK == "]"
QT == "\""
BS == "\\"
CL == ":"
CM == ","
SP == " "
Digits == {"1", "2"}
IsWs(c) == c = SP

\* --------------------------------------------------------------- values
Num(n) == [k |-> "num", v |-> n]
Str(s) == [k |-> "str", v |-> s]
Obj(ps) == [k |-> "obj", v |-> ps]
Arr(vs) == [k |-> "arr", v |-> vs]
Ref(i) == [k |-> "ref", v |-> i]
Null == [k |-> "null", v |-> 0]
Undef == [k |-> "undef", v |-> 0]

IsObj(x) == x.k = "obj"
IsArr(x) == x.k = "arr"

\* Index of key in the pair list of an object, 0 when absent.
KeyIndex(ps, key) ==
  LET idx == {i \in 1..Len(ps) : ps[i][1] = key}
  IN IF idx = {} THEN 0 ELSE CHOOSE i \in idx : TRUE

HasKey(o, key) == KeyIndex(o.v, key) # 0

\* o[key] = val on a plain object: an existing key keeps its place.
SetKey(ps, key, val) ==
  LET i == KeyIndex(ps, key)
  IN IF i = 0 THEN Append(ps, <<key, val>>)
     ELSE [ps EXCEPT ![i] = <<key, val>>]

GetKey(o, key) == o.v[KeyIndex(o.v, key)][2]

\* parseInt / Number / parseFloat on a run of decimal digits.
DigitVal(c) == IF c = "1" THEN 1 ELSE IF c = "2" THEN 2 ELSE 0

\* Evaluation order only: the folds below build their state x before they
\* go on with y.
Strict(x, y) == IF x = x THEN y ELSE y

RECURSIVE DigitsVal(_, _)
DigitsVal(s, acc) ==
  IF s = <<>> THEN acc
  ELSE DigitsVal(Tail(s), (10 * acc) + DigitVal(Head(s)))

ParseDigits(s) == DigitsVal(s, 0)


\* ----------------------------------------------------------- JSON.parse
\* JSON.parse as a pushdown recogniser folded over the characters.  mode is
\* the position in the grammar, stack the open containers (innermost last),
\* each with its items and, for an object, the key awaiting its value.
JInit == [mode |-> "val", stack |-> <<>>, buf |-> <<>>, res |-> Undef]

JErr(s) == [s EXCEPT !.mode = "err"]

\* A finished value goes to the innermost open container, or is the result.
JPut(s, val) ==
  IF s.stack = <<>> THEN [s EXCEPT !.mode = "after", !.res = val, !.buf = <<>>]
  ELSE LET n == Len(s.stack)
           f == s.stack[n]
           g == IF f.k = "arr" THEN [f EXCEPT !.v = Append(f.v, val)]
                ELSE [f EXCEPT !.v = SetKey(f.v, f.key, val)]
       IN [s EXCEPT !.mode = "after", !.stack = [s.stack EXCEPT ![n] = g],
                    !.buf = <<>>]

JPop(s) ==
  LET n == Len(s.stack)
      f == s.stack[n]
  IN JPut([s EXCEPT !.stack = SubSeq(s.stack, 1, n - 1)],
          IF f.k = "arr" THEN Arr(f.v) ELSE Obj(f.v))

JPush(s, kind, mode) ==
  [s EXCEPT !.mode = mode,
            !.stack = Append(s.stack, [k |-> kind, v |-> <<>>, key |-> <<>>])]

JValue(s, c) ==
  IF IsWs(c) THEN s
  ELSE IF c = LB THEN JPush(s, "obj", "objfirst")
  ELSE IF c = LK THEN JPush(s, "arr", "arrfirst")
  ELSE IF c = QT THEN [s EXCEPT !.mode = "str", !.buf = <<>>]
  ELSE IF c \in Digits THEN [s EXCEPT !.mode = "num", !.buf = <<c>>]
  ELSE JErr(s)

JAfter(s, c) ==
  IF IsWs(c) THEN s
  ELSE IF s.stack = <<>> THEN JErr(s)
  ELSE IF s.stack[Len(s.stack)].k = "arr"
       THEN IF c = CM THEN [s EXCEPT !.mode = "val"]
            ELSE IF c = RK THEN JPop(s) ELSE JErr(s)
       ELSE IF c = CM THEN [s EXCEPT !.mode = "key"]
            ELSE IF c = RB THEN JPop(s) ELSE JErr(s)

JStep(s, c) ==
  CASE s.mode = "err" -> s
    [] s.mode = "val" -> JValue(s, c)
    [] s.mode = "arrfirst" -> IF c = RK THEN JPop(s) ELSE JValue(s, c)
    [] s.mode = "objfirst" ->
         IF IsWs(c) THEN s
         ELSE IF c = RB THEN JPop(s)
         ELSE IF c = QT THEN [s EXCEPT !.mode = "keystr", !.buf = <<>>]
         ELSE JErr(s)
    [] s.mode = "key" ->
         IF IsWs(c) THEN s
         ELSE IF c = QT THEN [s EXCEPT !.mode = "keystr", !.buf = <<>>]
         ELSE JErr(s)
    [] s.mode = "keystr" ->
         IF c = QT
         THEN LET n == Len(s.stack)
              IN [s EXCEPT !.mode = "colon", !.stack[n].key = s.buf, !.buf = <<>>]
         ELSE IF c = BS THEN [s EXCEPT !.mode = "keyesc"]
         ELSE [s EXCEPT !.buf = Append(s.buf, c)]
    [] s.mode = "keyesc" ->
         IF c \in {QT, BS} THEN [s EXCEPT !.mode = "keystr", !.buf = Append(s.buf, c)]
         ELSE JErr(s)
    [] s.mode = "colon" ->
         IF IsWs(c) THEN s
         ELSE IF c = CL THEN [s EXCEPT !.mode = "val"] ELSE JErr(s)
    [] s.mode = "str" ->
         IF c = QT THEN JPut(s, Str(s.buf))
         ELSE IF c = BS THEN [s EXCEPT !.mode = "esc"]
         ELSE [s EXCEPT !.buf = Append(s.buf, c)]
    [] s.mode = "esc" ->
         IF c \in {QT, BS} THEN [s EXCEPT !.mode = "str", !.buf = Append(s.buf, c)]
         ELSE JErr(s)
    [] s.mode = "num" ->
         IF c \in Digits THEN [s EXCEPT !.buf = Append(s.buf, c)]
         ELSE JAfter(JPut(s, Num(ParseDigits(s.buf))), c)
    [] OTHER -> JAfter(s, c)

RECURSIVE JRun(_, _, _)
JRun(s, text, i) ==
  IF i > Len(text) THEN s
  ELSE Strict(s, JRun(JStep(s, text[i]), text, i + 1))

\* JSON.parse(text): ok is FALSE where JSON.parse throws SyntaxError.
\* The end of the text ends a number.
JEnd(s) == IF s.mode = "num" THEN JPut(s, Num(ParseDigits(s.buf))) ELSE s

JResult(e) ==
  IF e.mode = "after" /\ e.stack = <<>>
  THEN [ok |-> TRUE, val |-> e.res]
  ELSE [ok |-> FALSE, val |-> Undef]

JSONParse(text) == JResult(JEnd(JRun(JInit, text, 1)))

\* ------------------------------------------------------- JSON.stringify
RECURSIVE StrEscape(_)
StrEscape(s) ==
  IF s = <<>> THEN <<>>
  ELSE (IF Head(s) \in {QT, BS} THEN <<BS, Head(s)>> ELSE <<Head(s)>>) \o StrEscape(Tail(s))

Quote(s) == <<QT>> \o StrEscape(s) \o <<QT>>

DigitChar(d) ==
  CASE d = 0 -> "0" [] d = 1 -> "1" [] d = 2 -> "2" [] d = 3 -> "3" [] d = 4 -> "4"
    [] d = 5 -> "5" [] d = 6 -> "6" [] d = 7 -> "7" [] d = 8 -> "8" [] OTHER -> "9"

RECURSIVE NumText(_)
NumText(n) ==
  IF n < 10 THEN <<DigitChar(n)>> ELSE NumText(n \div 10) \o <<DigitChar(n % 10)>>

RECURSIVE Stringify(_)
RECURSIVE StringifyItems(_, _, _)
StringifyItems(kind, items, i) ==
  IF i > Len(items) THEN <<>>
  ELSE (IF i > 1 THEN <<CM>> ELSE <<>>)
       \o (IF kind = "obj"
           THEN Quote(items[i][1]) \o <<CL>> \o Stringify(items[i][2])
           ELSE Stringify(items[i]))
       \o StringifyItems(kind, items, i + 1)

\* JSON.stringify(x) for the values of this model.
Stringify(x) ==
  CASE x.k = "num" -> NumText(x.v)
    [] x.k = "str" -> Quote(x.v)
    [] x.k = "obj" -> <<LB>> \o StringifyItems("obj", x.v, 1) \o <<RB>>
    [] x.k = "arr" -> <<LK>> \o StringifyItems("arr", x.v, 1) \o <<RK>>
    [] OTHER -> <<"n", "u", "l", "l">>

\* ------------------------------------------------------------- helpers
Call(f, arg) == [f |-> f, arg |-> arg]

\* JavaScript truthiness of a value (if (partial) ...).
Truthy(x) ==
  CASE x.k \in {"null", "undef"} -> FALSE
    [] x.k = "num" -> x.v # 0
    [] x.k = "str" -> x.v # <<>>
    [] OTHER -> TRUE

\* Object.keys(x).length
KeyCount(x) == IF x.k \in {"obj", "arr", "str"} THEN Len(x.v) ELSE 0

Min(S) == CHOOSE i \in S : \A j \in S : i <= j

CountChar(text, c) == Cardinality({i \in 1..Len(text) : text[i] = c})

Repeat(c, n) == [i \in 1..n |-> c]

\* The first index >= i of text that holds no whitespace (Len + 1 at the end).
SkipWs(text, i) ==
  Min({j \in i..Len(text) : ~IsWs(text[j])} \cup {IF i > Len(text) THEN i ELSE Len(text) + 1})

\* String.prototype.trim
Trim(text) ==
  LET keep == {j \in 1..Len(text) : ~IsWs(text[j])}
  IN IF keep = {} THEN <<>>
     ELSE SubSeq(text, Min(keep), CHOOSE i \in keep : \A j \in keep : j <= i)

\* The index after the longest run of characters outside stop that begins at
\* i (i itself when there is none).
RunEnd(text, i, stop) ==
  Min({j \in i..Len(text) : text[j] \in stop} \cup {IF i > Len(text) THEN i ELSE Len(text) + 1})

\* The first index >= i of text that holds a quote, Len + 1 when none does.
NextQuote(text, i) == RunEnd(text, i, {QT})

DigitsEnd(text, i) ==
  Min({j \in i..Len(text) : text[j] \notin Digits} \cup {IF i > Len(text) THEN i ELSE Len(text) + 1})

\* ------------------------------------------- stream-json: buffer rescans
\* The brace scan shared by the three scanners: the flags after character c.
ScanInit == [current |-> <<>>, braceCount |-> 0, inString |-> FALSE,
             escaped |-> FALSE, startIndex |-> -1, out |-> <<>>]

\* One iteration of the loop of extractCompleteJsonObjects.
CompleteStep(s, c) ==
  LET cur == Append(s.current, c)
      t == [s EXCEPT !.current = cur]
  IN IF s.escaped THEN [t EXCEPT !.escaped = FALSE]
     ELSE IF c = BS THEN [t EXCEPT !.escaped = TRUE]
     ELSE IF c = QT THEN [t EXCEPT !.inString = ~s.inString]
     ELSE IF s.inString THEN t
     ELSE IF c = LB
          THEN [t EXCEPT !.braceCount = s.braceCount + 1,
                         !.startIndex = IF s.braceCount = 0 THEN Len(cur) - 1
                                        ELSE s.startIndex]
     ELSE IF c = RB
          THEN IF s.braceCount - 1 = 0 /\ s.startIndex # -1
               THEN [t EXCEPT !.braceCount = 0,
                              !.out = Append(s.out, SubSeq(cur, s.startIndex + 1, Len(cur))),
                              !.current = <<>>, !.startIndex = -1]
               ELSE [t EXCEPT !.braceCount = s.braceCount - 1]
     ELSE t

RECURSIVE CompleteScan(_, _, _)
CompleteScan(s, buffer, i) ==
  IF i > Len(buffer) THEN s
  ELSE Strict(s, CompleteScan(CompleteStep(s, buffer[i]), buffer, i + 1))

CompleteResult(s) == [complete |-> s.out, incomplete |-> s.current]

extractCompleteJsonObjects(buffer) == CompleteResult(CompleteScan(ScanInit, buffer, 1))

\* The fallback of tryParsePartial: the global match of
\*   /"([^"]+)"\s*:\s*"?([^,}"]+)"?/
\* at index s of text, as <<key, value, index after the match>>, or <<>>.
\* e is the quote that ends the key, c1 the colon, q the first character
\* after the whitespace behind the colon, from..r-1 the value group.
PartialPairAt(text, s) ==
  LET stop == {CM, RB, QT}
      Match(e, c1, q, from, r, some) ==
        IF /\ s <= Len(text) /\ text[s] = QT
           /\ e <= Len(text) /\ e > s + 1
           /\ c1 <= Len(text) /\ text[c1] = CL
           /\ (some \/ q > c1 + 1)
        THEN <<SubSeq(text, s + 1, e - 1), SubSeq(text, from, r - 1),
               IF r <= Len(text) /\ text[r] = QT THEN r + 1 ELSE r>>
        ELSE <<>>
      Group(e, c1, q, from, some) ==
        Match(e, c1, q, from, IF some THEN RunEnd(text, from, stop) ELSE q, some)
      AtValue(e, c1, q) ==
        LET viaQuote == q < Len(text) /\ text[q] = QT /\ text[q + 1] \notin stop
            direct == q <= Len(text) /\ text[q] \notin stop
        IN Group(e, c1, q, IF viaQuote THEN q + 1 ELSE IF direct THEN q ELSE q - 1,
                 viaQuote \/ direct)
      AtColon(e, c1) == AtValue(e, c1, SkipWs(text, c1 + 1))
      AtKeyEnd(e) == AtColon(e, SkipWs(text, e + 1))
  IN AtKeyEnd(NextQuote(text, s + 1))

\* isNaN(Number(value)) ? value : Number(value), for the characters modelled.
NumberOf(value, t) ==
  IF \A i \in 1..Len(t) : t[i] \in Digits THEN Num(ParseDigits(t)) ELSE Str(value)

NumberOrText(value) == NumberOf(value, Trim(value))

RECURSIVE PartialPairs(_, _, _)
RECURSIVE PartialPairsFrom(_, _, _, _)
\* matches.forEach over the successive matches m of the regular expression.
PartialPairsFrom(text, s, acc, m) ==
  IF m = <<>> THEN PartialPairs(text, s + 1, acc)
  ELSE PartialPairs(text, m[3], SetKey(acc, m[1], NumberOrText(m[2])))

PartialPairs(text, s, acc) ==
  IF s > Len(text) THEN acc
  ELSE Strict(acc, PartialPairsFrom(text, s, acc, PartialPairAt(text, s)))

\* completed += '}'.repeat(missingBraces)
CloseBraces(completed) ==
  completed \o Repeat(RB, CountChar(completed, LB) - CountChar(completed, RB))

PairsOrNull(pairs) == IF pairs # <<>> THEN Obj(pairs) ELSE Null

ParsedOrPairs(parsed, jsonStr) ==
  IF parsed.ok THEN parsed.val ELSE PairsOrNull(PartialPairs(jsonStr, 1, <<>>))

tryParsePartial(jsonStr) == ParsedOrPairs(JSONParse(CloseBraces(Trim(jsonStr))), jsonStr)

\* try { JSON.parse(current) } catch { tryParsePartial(current) }
ParsedOrPartial(parsed, cur) == IF parsed.ok THEN parsed.val ELSE tryParsePartial(cur)

\* if (partial) partials.push(partial)
PushPartial(out, partial) == IF Truthy(partial) THEN Append(out, partial) ELSE out

\* One iteration of the loop of extractPartialObjects.
PartialStep(s, c) ==
  LET cur == Append(s.current, c)
      t == [s EXCEPT !.current = cur]
  IN IF s.escaped THEN [t EXCEPT !.escaped = FALSE]
     ELSE IF c = BS THEN [t EXCEPT !.escaped = TRUE]
     ELSE IF c = QT THEN [t EXCEPT !.inString = ~s.inString]
     ELSE IF s.inString THEN t
     ELSE IF c = LB THEN [t EXCEPT !.braceCount = s.braceCount + 1]
     ELSE IF c = RB
          THEN IF s.braceCount - 1 = 0
               THEN [t EXCEPT !.braceCount = 0, !.current = <<>>,
                              !.out = PushPartial(s.out, ParsedOrPartial(JSONParse(cur), cur))]
               ELSE [t EXCEPT !.braceCount = s.braceCount - 1]
     ELSE t

RECURSIVE PartialScan(_, _, _)
PartialScan(s, buffer, i) ==
  IF i > Len(buffer) THEN s
  ELSE Strict(s, PartialScan(PartialStep(s, buffer[i]), buffer, i + 1))

\* Handle incomplete objects (lines 347-351).
PartialRest(s) ==
  IF Trim(s.current) # <<>> /\ s.braceCount > 0
  THEN PushPartial(s.out, tryParsePartial(s.current))
  ELSE s.out

extractPartialObjects(buffer) == PartialRest(PartialScan(ScanInit, buffer, 1))

\* --------------------------------------------- createStreamJsonAssembler
\* The closure state of one assembler.  lastLoggedState '' is <<>>.
SjInit == [buffer |-> <<>>, processedLength |-> 0, lastLoggedState |-> <<>>]

\* One iteration of the for-loop of parseJsonObjects: onComplete when
\* JSON.parse accepts the segment, console.error when it throws.
SegmentParsed(acc, parsed) ==
  IF parsed.ok THEN [acc EXCEPT !.calls = Append(@, Call("complete", parsed.val))]
  ELSE [acc EXCEPT !.errs = @ + 1]

RECURSIVE ParseSegments(_, _, _)
ParseSegments(segs, i, acc) ==
  IF i > Len(segs) THEN acc
  ELSE ParseSegments(segs, i + 1, SegmentParsed(acc, JSONParse(segs[i])))

ProcessedLength(done, newProcessedLength) ==
  [newProcessedLength |-> newProcessedLength, calls |-> done.calls, errs |-> done.errs]

\* parseJsonObjects' bookkeeping with a fault: startFrom is left out of the
\* new cursor, which is then an offset into inputToProcess.
ParseObjectsFromZero(objects, inputLength, startFrom) ==
  ProcessedLength(ParseSegments(objects.complete, 1, [calls |-> <<>>, errs |-> 0]),
                  inputLength - Len(objects.incomplete))

ParseObjects(objects, inputLength, startFrom) ==
  ProcessedLength(ParseSegments(objects.complete, 1, [calls |-> <<>>, errs |-> 0]),
                  (startFrom + inputLength) - Len(objects.incomplete))

ParseInput(inputToProcess, startFrom) ==
  ParseObjects(extractCompleteJsonObjects(inputToProcess), Len(inputToProcess), startFrom)

\* parseJsonObjects with a fault: the caller is told nothing was consumed,
\* so the next write() scans the completed segments again.
parseJsonObjectsStale(input, startFrom) ==
  [ParseInput(SubSeq(input, startFrom + 1, Len(input)), startFrom)
     EXCEPT !.newProcessedLength = startFrom]

parseJsonObjects(input, startFrom) ==
  ParseInput(SubSeq(input, startFrom + 1, Len(input)), startFrom)

RECURSIVE ChunkCalls(_, _)
\* partialObjects.forEach: onChunk for each partial with at least one key.
ChunkCalls(partials, i) ==
  IF i > Len(partials) THEN <<>>
  ELSE (IF Truthy(partials[i]) /\ KeyCount(partials[i]) > 0
        THEN <<Call("chunk", partials[i])>> ELSE <<>>)
       \o ChunkCalls(partials, i + 1)

\* Lines 262-272: log when the serialised partials differ from the last.
LogState(st, partialObjects, currentState) ==
  IF currentState # st.lastLoggedState
  THEN [lastLoggedState |-> currentState, calls |-> ChunkCalls(partialObjects, 1)]
  ELSE [lastLoggedState |-> st.lastLoggedState, calls |-> <<>>]

LogPartials(st, partialObjects) ==
  LogState(st, partialObjects, Stringify(Arr(partialObjects)))

\* Lines 260-273.
LogChunks(st, buffer, onChunk) ==
  IF onChunk THEN LogPartials(st, extractPartialObjects(buffer))
  ELSE [lastLoggedState |-> st.lastLoggedState, calls |-> <<>>]

Written(buffer, logged, result) ==
  [st |-> [buffer |-> buffer, processedLength |-> result.newProcessedLength,
           lastLoggedState |-> logged.lastLoggedState],
   calls |-> logged.calls \o result.calls,
   errs |-> result.errs]

\* write with a fault: the complete objects are looked for inside the
\* if (onChunk) block only.
WriteBufferInsideIf(st, buffer, onChunk) ==
  Written(buffer, LogChunks(st, buffer, onChunk),
          IF onChunk THEN parseJsonObjects(buffer, st.processedLength)
          ELSE [newProcessedLength |-> st.processedLength, calls |-> <<>>, errs |-> 0])

WriteBuffer(st, buffer, onChunk) ==
  Written(buffer, LogChunks(st, buffer, onChunk), parseJsonObjects(buffer, st.processedLength))

SjWrite(st, chunk, onChunk) == WriteBuffer(st, st.buffer \o chunk, onChunk)

Closed(st, result) == [st |-> st, calls |-> result.calls, errs |-> result.errs]

SjClose(st) ==
  IF Len(st.buffer) > st.processedLength
  THEN Closed(st, parseJsonObjects(st.buffer, st.processedLength))
  ELSE [st |-> st, calls |-> <<>>, errs |-> 0]

\* ------------------------------------------- clarinet: the SAX tokenizer
\* clarinet.createStream() (clarinet-stream-parser.ts line 17): the library's
\* CParser, one character at a time.  state and stack hold the names of
\* clarinet's states; textNode is Undef or the string being read.
PInit == [state |-> "BEGIN", stack |-> <<>>, textNode |-> Undef,
          numberNode |-> <<>>, slashed |-> FALSE, depth |-> 0]

Ev(e, arg) == [e |-> e, arg |-> arg]

PR(p, ev) == [p |-> p, ev |-> ev]

\* closeValue(parser, event): emit the pending text, if any, as `event`.
CloseValue(p, event) ==
  IF p.textNode = Undef THEN PR(p, <<>>)
  ELSE PR([p EXCEPT !.textNode = Undef], <<Ev(event, p.textNode)>>)

\* The result r with its events put after evs / followed by evs.
PBefore(evs, r) == PR(r.p, evs \o r.ev)
PAfter(r, evs) == PR(r.p, r.ev \o evs)

\* The result r with the parser moved to state st.
PState(r, st) == PR([r.p EXCEPT !.state = st], r.ev)

\* error(parser, er): closeValue, then "error" (CStream then clears
\* parser.error, so the next character is read in the same state).
PError(p) == PAfter(CloseValue(p, "value"), <<Ev("error", Undef)>>)

\* parser.stack.pop() || S.VALUE
PPop(p) ==
  IF p.stack = <<>> THEN [p EXCEPT !.state = "VALUE"]
  ELSE [p EXCEPT !.state = p.stack[Len(p.stack)],
                 !.stack = SubSeq(p.stack, 1, Len(p.stack) - 1)]

PPush(p, st) == [p EXCEPT !.stack = Append(p.stack, st)]

\* The first character of a key, after the state to return to is pushed.
PKeyStart(q, c) == IF c = QT THEN PR([q EXCEPT !.state = "STRING"], <<>>) ELSE PError(q)

POpenKey(p, c) ==
  IF IsWs(c) THEN PR(p, <<>>)
  ELSE IF p.state = "OPEN_OBJECT" /\ c = RB
       THEN PR(PPop(p), <<Ev("openobject", Undef), Ev("closeobject", Undef)>>)
  ELSE PKeyStart(PPush(p, IF p.state = "OPEN_KEY" THEN "CLOSE_KEY" ELSE "CLOSE_OBJECT"), c)

\* The result r with the depth set, the state popped and ev emitted last.
PCloseContainer(r, depth, ev) ==
  PR(PPop([r.p EXCEPT !.depth = depth]), r.ev \o <<Ev(ev, Undef)>>)

POpened(r, depth) == PR([r.p EXCEPT !.state = "VALUE", !.depth = depth], r.ev)

PCloseKey(p, c) ==
  IF IsWs(c) THEN PR(p, <<>>)
  ELSE IF c = CL
       THEN IF p.state = "CLOSE_OBJECT"
            THEN POpened(CloseValue(PPush(p, "CLOSE_OBJECT"), "openobject"), p.depth + 1)
            ELSE PState(CloseValue(p, "key"), "VALUE")
  ELSE IF c = RB
       THEN PCloseContainer(CloseValue(p, "value"), p.depth - 1, "closeobject")
  ELSE IF c = CM
       THEN PState(CloseValue(IF p.state = "CLOSE_OBJECT" THEN PPush(p, "CLOSE_OBJECT")
                              ELSE p, "value"), "OPEN_KEY")
  ELSE PError(p)

\* The dispatch on the first character of a value.
PValueChar(p, c) ==
  IF c = QT THEN PR([p EXCEPT !.state = "STRING"], <<>>)
  ELSE IF c = LB THEN PR([p EXCEPT !.state = "OPEN_OBJECT"], <<>>)
  ELSE IF c = LK THEN PR([p EXCEPT !.state = "OPEN_ARRAY"], <<>>)
  ELSE IF c \in Digits
       THEN PR([p EXCEPT !.state = "NUMBER_DIGIT", !.numberNode = Append(p.numberNode, c)],
               <<>>)
  ELSE PError(p)

PValue(p, c) ==
  IF IsWs(c) THEN PR(p, <<>>)
  ELSE IF p.state = "OPEN_ARRAY"
       THEN IF c = RK
            THEN PR(PPop([p EXCEPT !.state = "VALUE"]),
                    <<Ev("openarray", Undef), Ev("closearray", Undef)>>)
            ELSE PBefore(<<Ev("openarray", Undef)>>,
                         PValueChar(PPush([p EXCEPT !.state = "VALUE", !.depth = p.depth + 1],
                                          "CLOSE_ARRAY"), c))
  ELSE PValueChar(p, c)

PCloseArray(p, c) ==
  IF c = CM THEN PState(CloseValue(PPush(p, "CLOSE_ARRAY"), "value"), "VALUE")
  ELSE IF c = RK THEN PCloseContainer(CloseValue(p, "value"), p.depth - 1, "closearray")
  ELSE IF IsWs(c) THEN PR(p, <<>>)
  ELSE PError(p)

PString(p, c) ==
  LET t == IF p.textNode = Undef THEN <<>> ELSE p.textNode.v
  IN IF p.slashed
     THEN PR([p EXCEPT !.slashed = FALSE, !.textNode = Str(Append(t, c))], <<>>)
     ELSE IF c = QT THEN PR(PPop([p EXCEPT !.textNode = Str(t)]), <<>>)
     ELSE IF c = BS THEN PR([p EXCEPT !.slashed = TRUE, !.textNode = Str(t)], <<>>)
     ELSE PR([p EXCEPT !.textNode = Str(Append(t, c))], <<>>)

\* One pass of the switch of CParser.write for a state other than NUMBER_DIGIT.
PStepMain(p, c) ==
  CASE p.state = "BEGIN" ->
         IF c = LB THEN PR([p EXCEPT !.state = "OPEN_OBJECT"], <<>>)
         ELSE IF c = LK THEN PR([p EXCEPT !.state = "OPEN_ARRAY"], <<>>)
         ELSE IF IsWs(c) THEN PR(p, <<>>)
         ELSE PError(p)
    [] p.state \in {"OPEN_KEY", "OPEN_OBJECT"} -> POpenKey(p, c)
    [] p.state \in {"CLOSE_KEY", "CLOSE_OBJECT"} -> PCloseKey(p, c)
    [] p.state \in {"OPEN_ARRAY", "VALUE"} -> PValue(p, c)
    [] p.state = "CLOSE_ARRAY" -> PCloseArray(p, c)
    [] OTHER -> PString(p, c)

\* One character of CParser.write.  A number ends at the first character
\* that is no digit: closeNumber emits it and the character is read again
\* in the state popped from the stack.
PStep(p, c) ==
  IF p.state # "NUMBER_DIGIT" THEN PStepMain(p, c)
  ELSE IF c \in Digits THEN PR([p EXCEPT !.numberNode = Append(p.numberNode, c)], <<>>)
  ELSE PBefore(<<Ev("value", Num(ParseDigits(p.numberNode)))>>,
               PStepMain(PPop([p EXCEPT !.numberNode = <<>>]), c))

\* end(parser): "Unexpected end" unless at rest; closeValue; then CParser is
\* constructed anew over the same object.
PEnded(ev, t) == PR(PInit, (ev \o t.ev) \o <<Ev("end", Undef)>>)

PEnding(r) == PEnded(r.ev, CloseValue(r.p, "value"))

PEnd(p) == PEnding(IF p.state # "VALUE" \/ p.depth # 0 THEN PError(p) ELSE PR(p, <<>>))

\* ------------------------------------------------ createClarinetAssembler
\* The closure state of one assembler (lines 17-24).  The containers that
\* current and stack alias are heap cells; lastChunkState null is <<>>.
HInit == [stack |-> <<>>, current |-> Null, key |-> Null, objectDepth |-> 0,
          rootObjects |-> <<>>, inputBuffer |-> <<>>, lastChunkState |-> <<>>,
          heap |-> <<>>]

ClInit == [parser |-> PInit, h |-> HInit]

\* The value a reference stands for at this moment, nested containers included.
RECURSIVE Deref(_, _)
Deref(heap, x) ==
  CASE x.k = "ref" -> Deref(heap, heap[x.v])
    [] x.k = "obj" -> Obj([i \in 1..Len(x.v) |-> <<x.v[i][1], Deref(heap, x.v[i][2])>>])
    [] x.k = "arr" -> Arr([i \in 1..Len(x.v) |-> Deref(heap, x.v[i])])
    [] OTHER -> x

IsArrayRef(heap, x) == x.k = "ref" /\ heap[x.v].k = "arr"

\* { ...current }: the own enumerable properties of an object or an array.
Spread(c) ==
  IF c.k = "arr" THEN [i \in 1..Len(c.v) |-> <<NumText(i - 1), c.v[i]>>] ELSE c.v

\* The brace scan of extractPartialFromBuffer (lines 36-69).
BufScanInit == [braceCount |-> 0, lastObjectStart |-> -1, inString |-> FALSE,
                escaped |-> FALSE]

BufScanStep(s, c, i) ==
  IF s.escaped THEN [s EXCEPT !.escaped = FALSE]
  ELSE IF c = BS THEN [s EXCEPT !.escaped = TRUE]
  ELSE IF c = QT THEN [s EXCEPT !.inString = ~s.inString]
  ELSE IF s.inString THEN s
  ELSE IF c = LB
       THEN [s EXCEPT !.braceCount = s.braceCount + 1,
                      !.lastObjectStart = IF s.braceCount = 0 THEN i ELSE s.lastObjectStart]
  ELSE IF c = RB THEN [s EXCEPT !.braceCount = s.braceCount - 1]
  ELSE s

RECURSIVE BufScan(_, _, _)
\* i is the 0-based index of the source's loop.
BufScan(s, buffer, i) ==
  IF i >= Len(buffer) THEN s
  ELSE Strict(s, BufScan(BufScanStep(s, buffer[i + 1], i), buffer, i + 1))

\* keyValueRegex (line 76) at index s of text:
\*   /"([^"]+)"\s*:\s*(?:(\d+)|"([^"]*)"?)/
\* as <<key, value, index after the match>>, or <<>>.
\* e is the quote that ends the key, c1 the colon, q the first character
\* after the whitespace behind the colon, r the end of the value group.
KeyValueAt(text, s) ==
  LET Match(e, c1, q, isNum, r) ==
        IF /\ s <= Len(text) /\ text[s] = QT
           /\ e <= Len(text) /\ e > s + 1
           /\ c1 <= Len(text) /\ text[c1] = CL
           /\ q <= Len(text) /\ (isNum \/ text[q] = QT)
        THEN IF isNum
             THEN <<SubSeq(text, s + 1, e - 1), Num(ParseDigits(SubSeq(text, q, r - 1))), r>>
             ELSE <<SubSeq(text, s + 1, e - 1), Str(SubSeq(text, q + 1, r - 1)),
                    IF r <= Len(text) THEN r + 1 ELSE r>>
        ELSE <<>>
      Group(e, c1, q, isNum) ==
        Match(e, c1, q, isNum, IF isNum THEN DigitsEnd(text, q) ELSE NextQuote(text, q + 1))
      AtValue(e, c1, q) == Group(e, c1, q, q <= Len(text) /\ text[q] \in Digits)
      AtColon(e, c1) == AtValue(e, c1, SkipWs(text, c1 + 1))
      AtKeyEnd(e) == AtColon(e, SkipWs(text, e + 1))
  IN AtKeyEnd(NextQuote(text, s + 1))

RECURSIVE KeyValuePairs(_, _, _)
RECURSIVE KeyValuePairsFrom(_, _, _, _)
\* The exec loop (lines 79-86): result[key] = value for each match m.
KeyValuePairsFrom(text, s, acc, m) ==
  IF m = <<>> THEN KeyValuePairs(text, s + 1, acc)
  ELSE KeyValuePairs(text, m[3], SetKey(acc, m[1], m[2]))

KeyValuePairs(text, s, acc) ==
  IF s > Len(text) THEN acc
  ELSE Strict(acc, KeyValuePairsFrom(text, s, acc, KeyValueAt(text, s)))

\* Lines 72-87, after the brace scan.
PartialFromScan(h, scan) ==
  IF scan.braceCount > 0 /\ scan.lastObjectStart # -1
  THEN KeyValuePairs(SubSeq(h.inputBuffer, scan.lastObjectStart + 1, Len(h.inputBuffer)),
                     1, Spread(h.heap[h.current.v]))
  ELSE Spread(h.heap[h.current.v])

\* The pair list of the object extractPartialFromBuffer returns when current
\* is set and objectDepth is 1 (the only case reportCurrentChunk calls it in).
extractPartialFromBuffer(h) == PartialFromScan(h, BufScan(BufScanInit, h.inputBuffer, 0))

HR(h, calls, errs) == [h |-> h, calls |-> calls, errs |-> errs]

\* Lines 102-105 without the Object.keys(...).length > 0 test.
ReportUnguarded(h, partialObj, currentState) ==
  IF currentState # h.lastChunkState
  THEN HR([h EXCEPT !.lastChunkState = currentState], <<Call("chunk", partialObj)>>, 0)
  ELSE HR(h, <<>>, 0)

ReportPartialUnguarded(h, partialObj) == ReportUnguarded(h, partialObj, Stringify(partialObj))

\* reportCurrentChunk with a fault: the Object.keys(...).length > 0 test
\* of line 102 is left out.
reportCurrentChunkUnguarded(h, onChunk) ==
  IF onChunk /\ h.current # Null /\ h.objectDepth = 1
  THEN ReportPartialUnguarded(h, Deref(h.heap, Obj(extractPartialFromBuffer(h))))
  ELSE HR(h, <<>>, 0)

\* Lines 102-105 with a fault: the reported state is not remembered.
ReportForgetful(h, partialObj, currentState) ==
  IF currentState # h.lastChunkState /\ KeyCount(partialObj) > 0
  THEN HR(h, <<Call("chunk", partialObj)>>, 0)
  ELSE HR(h, <<>>, 0)

\* Lines 102-105.
Report(h, partialObj, currentState) ==
  IF currentState # h.lastChunkState /\ KeyCount(partialObj) > 0
  THEN HR([h EXCEPT !.lastChunkState = currentState], <<Call("chunk", partialObj)>>, 0)
  ELSE HR(h, <<>>, 0)

ReportPartial(h, partialObj) == Report(h, partialObj, Stringify(partialObj))

reportCurrentChunk(h, onChunk) ==
  IF onChunk /\ h.current # Null /\ h.objectDepth = 1
  THEN ReportPartial(h, Deref(h.heap, Obj(extractPartialFromBuffer(h))))
  ELSE HR(h, <<>>, 0)

\* current.push(x) / current[key] = x on the container current refers to.
HeapPush(heap, cur, x) == [heap EXCEPT ![cur.v].v = Append(@, x)]

HeapSet(heap, cur, key, x) ==
  IF heap[cur.v].k = "arr" THEN heap
  ELSE [heap EXCEPT ![cur.v].v = SetKey(@, key.v, x)]

\* What openobject and openarray do to attach the new container (lines
\* 124-131, 166-173); the result holds the heap and the key.
Attach(h, new) ==
  IF h.current # Null
  THEN IF IsArrayRef(h.heap, h.current)
       THEN [h EXCEPT !.heap = HeapPush(h.heap, h.current, new)]
       ELSE IF h.key # Null
            THEN [h EXCEPT !.heap = HeapSet(h.heap, h.current, h.key, new), !.key = Null]
            ELSE h
  ELSE h

\* if (name) key = name
Named(h, name) == IF Truthy(name) THEN [h EXCEPT !.key = name] ELSE h

\* stack.push(current); current = new
PushCurrent(h, new) == [h EXCEPT !.stack = Append(h.stack, h.current), !.current = new]

\* Lines 114-138, a being the closure after objectDepth++.
Opened(a, new, name) ==
  IF a.objectDepth = 1
  THEN Named([a EXCEPT !.current = new, !.rootObjects = Append(a.rootObjects, new)], name)
  ELSE Named(PushCurrent(Attach(a, new), new), name)

OnOpenObject(h, name, onChunk) ==
  reportCurrentChunk(
    Opened([h EXCEPT !.heap = Append(h.heap, Obj(<<>>)), !.objectDepth = h.objectDepth + 1],
           Ref(Len(h.heap) + 1), name),
    onChunk)

RemoveRoot(roots, cur) ==
  LET idx == {i \in 1..Len(roots) : roots[i] = cur}
  IN IF idx = {} THEN roots
     ELSE LET m == CHOOSE i \in idx : \A j \in idx : i <= j
          IN SubSeq(roots, 1, m - 1) \o SubSeq(roots, m + 1, Len(roots))

\* Lines 147-161, a being the closure after objectDepth--.
Closing(a) ==
  IF a.objectDepth = 0
  THEN IF a.current # Null
       THEN HR([a EXCEPT !.rootObjects = RemoveRoot(a.rootObjects, a.current),
                         !.current = Null],
               <<Call("complete", Deref(a.heap, a.current))>>, 0)
       ELSE HR(a, <<>>, 0)
  ELSE IF a.stack # <<>>
       THEN HR([a EXCEPT !.current = a.stack[Len(a.stack)],
                         !.stack = SubSeq(a.stack, 1, Len(a.stack) - 1)], <<>>, 0)
       ELSE HR(a, <<>>, 0)

OnCloseObject(h) == Closing([h EXCEPT !.objectDepth = h.objectDepth - 1])

OnOpenArray(h) ==
  HR(PushCurrent(Attach([h EXCEPT !.heap = Append(h.heap, Arr(<<>>))], Ref(Len(h.heap) + 1)),
                 Ref(Len(h.heap) + 1)), <<>>, 0)

OnCloseArray(h) ==
  IF h.stack # <<>>
  THEN HR([h EXCEPT !.current = h.stack[Len(h.stack)],
                    !.stack = SubSeq(h.stack, 1, Len(h.stack) - 1)], <<>>, 0)
  ELSE HR(h, <<>>, 0)

OnKey(h, k) == HR([h EXCEPT !.key = k], <<>>, 0)

\* The "value" listener without `key = null` (line 191 left out).
OnValueKeepsKey(h, value, onChunk) ==
  IF h.current # Null /\ h.key # Null
  THEN reportCurrentChunk(
         [h EXCEPT !.heap = IF IsArrayRef(h.heap, h.current)
                            THEN h.heap
                            ELSE HeapSet(h.heap, h.current, h.key, value)], onChunk)
  ELSE IF h.current # Null /\ IsArrayRef(h.heap, h.current)
       THEN HR([h EXCEPT !.heap = HeapPush(h.heap, h.current, value)], <<>>, 0)
       ELSE HR(h, <<>>, 0)

OnValue(h, value, onChunk) ==
  IF h.current # Null /\ h.key # Null
  THEN reportCurrentChunk(
         [h EXCEPT !.heap = IF IsArrayRef(h.heap, h.current)
                            THEN h.heap
                            ELSE HeapSet(h.heap, h.current, h.key, value),
                   !.key = Null], onChunk)
  ELSE IF h.current # Null /\ IsArrayRef(h.heap, h.current)
       THEN HR([h EXCEPT !.heap = HeapPush(h.heap, h.current, value)], <<>>, 0)
       ELSE HR(h, <<>>, 0)

\* The "error" listener: console.error, and nothing else.
OnError(h) == HR(h, <<>>, 1)

Dispatch(h, ev, onChunk) ==
  CASE ev.e = "openobject" -> OnOpenObject(h, ev.arg, onChunk)
    [] ev.e = "closeobject" -> OnCloseObject(h)
    [] ev.e = "openarray" -> OnOpenArray(h)
    [] ev.e = "closearray" -> OnCloseArray(h)
    [] ev.e = "key" -> OnKey(h, ev.arg)
    [] ev.e = "value" -> OnValue(h, ev.arg, onChunk)
    [] ev.e = "error" -> OnError(h)
    [] OTHER -> HR(h, <<>>, 0)

\* What the listeners did so far (r) and what one more listener did (n).
Merge(r, n) == HR(n.h, r.calls \o n.calls, r.errs + n.errs)

RECURSIVE DispatchAll(_, _, _, _)
DispatchAll(r, evs, i, onChunk) ==
  IF i > Len(evs) THEN r
  ELSE Strict(r, DispatchAll(Merge(r, Dispatch(r.h, evs[i], onChunk)), evs, i + 1, onChunk))

Dispatched(p, d) == [st |-> [parser |-> p, h |-> d.h], calls |-> d.calls, errs |-> d.errs]

\* The tokenizer result r reaches the listeners.
Emitted(st, r, onChunk) ==
  Dispatched(r.p, DispatchAll(HR(st.st.h, st.calls, st.errs), r.ev, 1, onChunk))

RECURSIVE ParserWrite(_, _, _, _)
\* parser.write(chunk): each character's events reach the listeners at once.
ParserWrite(st, chunk, i, onChunk) ==
  IF i > Len(chunk) THEN st
  ELSE Strict(st, ParserWrite(Emitted(st, PStep(st.st.parser, chunk[i]), onChunk),
                              chunk, i + 1, onChunk))

\* write(chunk) up to the setTimeout (lines 205-208).
ClWrite(st, chunk, onChunk) ==
  ParserWrite([st |-> [st EXCEPT !.h.inputBuffer = st.h.inputBuffer \o chunk],
               calls |-> <<>>, errs |-> 0], chunk, 1, onChunk)

\* close(): parser.end("").
ClClose(st, onChunk) ==
  Emitted([st |-> st, calls |-> <<>>, errs |-> 0], PEnd(st.parser), onChunk)

Reported(st, d) == [st |-> [st EXCEPT !.h = d.h], calls |-> d.calls, errs |-> 0]

\* The callback write() hands to setTimeout (line 210).
ClTimer(st, onChunk) == Reported(st, reportCurrentChunk(st.h, onChunk))

\* ---------------------------------------------------------- the inputs
\* A top-level item of the stream: its text, the value it denotes (Undef
\* when the text is no JSON value) and what kind of text it is.
Item(t, v, kind) == [t |-> t, v |-> v, kind |-> kind]

Q(s) == <<QT>> \o s \o <<QT>>
KA == Q(<<"a">>)
KC == Q(<<"c">>)

OneKey(key, valueText, value) ==
  Item((<<LB>> \o Q(key) \o <<CL>>) \o (valueText \o <<RB>>), Obj(<< <<key, value>> >>), "object")

WellFormedObjects ==
  { OneKey(<<"a">>, <<"1", "2">>, Num(12)),
    OneKey(<<"c">>, Q(<<"a">>), Str(<<"a">>)),
    OneKey(<<"c">>, Q(<<BS, QT, RB>>), Str(<<QT, RB>>)),
    OneKey(<<"a">>, <<LB>> \o KC \o <<CL, "1", RB>>, Obj(<< <<(<<"c">>), Num(1)>> >>)),
    OneKey(<<"c">>, <<LK, "1", CM, "2", RK>>, Arr(<<Num(1), Num(2)>>)),
    OneKey(<<"a">>, <<LK, RK>>, Arr(<<>>)),
    OneKey(<<>>, <<"1">>, Num(1)),
    Item(<<LB, RB>>, Obj(<<>>), "object"),
    Item(<<LB>> \o KA \o <<CL, "1", CM, SP>> \o KC \o <<CL, "2", RB>>,
         Obj(<< <<(<<"a">>), Num(1)>>, <<(<<"c">>), Num(2)>> >>), "object") }

OtherValues ==
  { Item(<<LK, "1", CM, "2", RK>>, Arr(<<Num(1), Num(2)>>), "array"),
    Item(<<LK, LB>> \o KA \o <<CL, "1", RB, RK>>,
         Arr(<<Obj(<< <<(<<"a">>), Num(1)>> >>)>>), "array"),
    Item(<<"1", SP>>, Num(1), "scalar"),
    Item(Q(<<"a">>), Str(<<"a">>), "scalar") }

Malformed ==
  { Item(<<LB>> \o KA \o <<CL, "1", CM, RB>>, Undef, "trailing_comma"),
    Item(<<RB>>, Undef, "stray_close"),
    Item(<<LB>> \o KA \o <<CL, QT, "c">>, Undef, "unterminated_string"),
    Item(<<LB>> \o KA \o <<CL>> \o Q(<<BS, "c">>) \o <<RB>>, Undef, "bad_escape"),
    Item(<<LB>> \o KA \o <<CL, "1">>, Undef, "truncated") }

Items == (WellFormedObjects \cup OtherValues) \cup Malformed

\* What may follow a first item in the same stream.
Followers ==
  { OneKey(<<"a">>, <<"1", "2">>, Num(12)), OneKey(<<"c">>, Q(<<"a">>), Str(<<"a">>)) }

Inputs == { <<x>> : x \in Items } \cup { <<x, y>> : x \in Items, y \in Followers }

RECURSIVE TextOf(_)
TextOf(items) == IF items = <<>> THEN <<>> ELSE Head(items).t \o TextOf(Tail(items))

\* At most this many write() calls are made on one assembler.
MaxWrites == 2

\* -------------------------------------------------------------- the state
VARIABLES
  impl,      \* which factory built the assembler under test
  onChunk,   \* whether config.onChunk was given
  items,     \* the top-level items the caller is going to send
  pos,       \* how many characters of their text have been written
  nwrites,   \* how many write() calls were made
  closed,    \* whether close() was called
  cl,        \* the createClarinetAssembler closure
  sj,        \* the createStreamJsonAssembler closure
  timers,    \* setTimeout callbacks not yet run
  calls,     \* every onComplete / onChunk invocation so far, in order
  errors,    \* console.error reports so far
  last,      \* the most recent operation and what it invoked
  two        \* two assemblers that live side by side (the second specification)

vars == <<impl, onChunk, items, pos, nwrites, closed, cl, sj, timers, calls, errors, last,
          two>>

\* No second pair of assemblers was created.
NoInstances == [env |-> <<>>, inst |-> <<>>, actor |-> 0, turns |-> 0]

text == TextOf(items)

Op(op, from, r) == [op |-> op, from |-> from, calls |-> r.calls, errs |-> r.errs]

Init ==
  /\ impl \in {"clarinet", "stream-json"}
  /\ onChunk \in BOOLEAN
  /\ items \in Inputs
  /\ pos = 0
  /\ nwrites = 0
  /\ closed = FALSE
  /\ cl = ClInit
  /\ sj = SjInit
  /\ timers = 0
  /\ calls = <<>>
  /\ errors = 0
  /\ last = [op |-> "create", from |-> 0, calls |-> <<>>, errs |-> 0]
  /\ two = NoInstances

\* assembler.write(chunk) on the clarinet assembler; chunk is the next n
\* characters of the text.
ClarinetWrite(n) ==
  /\ impl = "clarinet" /\ ~closed /\ nwrites < MaxWrites
  /\ pos + n <= Len(text)
  /\ LET r == ClWrite(cl, SubSeq(text, pos + 1, pos + n), onChunk)
     IN /\ cl' = r.st
        /\ calls' = calls \o r.calls
        /\ errors' = errors + r.errs
        /\ last' = Op("write", pos, r)
  /\ timers' = timers + 1
  /\ pos' = pos + n
  /\ nwrites' = nwrites + 1
  /\ UNCHANGED <<impl, onChunk, items, closed, sj, two>>

\* A deferred report runs: setTimeout(() => reportCurrentChunk(), 0).
ClarinetTimer ==
  /\ impl = "clarinet" /\ timers > 0
  /\ LET r == ClTimer(cl, onChunk)
     IN /\ cl' = r.st
        /\ calls' = calls \o r.calls
        /\ last' = Op("timer", pos, r)
  /\ timers' = timers - 1
  /\ UNCHANGED <<impl, onChunk, items, pos, nwrites, closed, sj, errors, two>>

ClarinetClose ==
  /\ impl = "clarinet" /\ ~closed
  /\ LET r == ClClose(cl, onChunk)
     IN /\ cl' = r.st
        /\ calls' = calls \o r.calls
        /\ errors' = errors + r.errs
        /\ last' = Op("close", pos, r)
  /\ closed' = TRUE
  /\ UNCHANGED <<impl, onChunk, items, pos, nwrites, sj, timers, two>>

StreamJsonWrite(n) ==
  /\ impl = "stream-json" /\ ~closed /\ nwrites < MaxWrites
  /\ pos + n <= Len(text)
  /\ LET r == SjWrite(sj, SubSeq(text, pos + 1, pos + n), onChunk)
     IN /\ sj' = r.st
        /\ calls' = calls \o r.calls
        /\ errors' = errors + r.errs
        /\ last' = Op("write", pos, r)
  /\ pos' = pos + n
  /\ nwrites' = nwrites + 1
  /\ UNCHANGED <<impl, onChunk, items, closed, cl, timers, two>>

StreamJsonClose ==
  /\ impl = "stream-json" /\ ~closed
  /\ LET r == SjClose(sj)
     IN /\ sj' = r.st
        /\ calls' = calls \o r.calls
        /\ errors' = errors + r.errs
        /\ last' = Op("close", pos, r)
  /\ closed' = TRUE
  /\ UNCHANGED <<impl, onChunk, items, pos, nwrites, cl, timers, two>>

Next ==
  \/ \E n \in 1..Len(text) : ClarinetWrite(n)
  \/ ClarinetTimer
  \/ ClarinetClose
  \/ \E n \in 1..Len(text) : StreamJsonWrite(n)
  \/ StreamJsonClose

Spec == Init /\ [][Next]_vars

\* ------------------------------------------------- two assemblers at once
\* The streams the two assemblers are fed.
TwoInputs ==
  { <<OneKey(<<"a">>, <<"1", "2">>, Num(12)), OneKey(<<"c">>, Q(<<"a">>), Str(<<"a">>))>>,
    <<OneKey(<<"a">>, <<LB>> \o KC \o <<CL, "1", RB>>, Obj(<< <<(<<"c">>), Num(1)>> >>))>> }

\* The lengths of the chunks the callers write.
Pieces == {5, 9}

\* From this many changes of the acting assembler on they are not counted.
MaxTurns == 2

\* The variables a call of the factory binds: a fresh closure (lines 17-24
\* of clarinet-stream-parser.ts, lines 229-231 of schemas.ts).
NewClosure(im) == IF im = "clarinet" THEN ClInit ELSE SjInit

\* What the caller of one assembler holds: which factory made it, whether
\* it asked for chunks, its stream, how far it has written, and what the
\* assembler called back.  ops is the list of operations run on it.
NewInstance(im, oc, its) ==
  [impl |-> im, onChunk |-> oc, items |-> its, pos |-> 0, nwrites |-> 0,
   closed |-> FALSE, timers |-> 0, calls |-> <<>>, ops |-> <<>>]

NewSystem(a, b) ==
  [env |-> <<NewClosure(a.impl), NewClosure(b.impl)>>, inst |-> <<a, b>>,
   actor |-> 0, turns |-> 0]

\* A fault: the state is declared once per file, outside the factory, so
\* the methods of every assembler of one kind see the bindings of the first
\* assembler of that kind.
ClosureShared(env, id) ==
  env[Min({j \in 1..Len(env) : DOMAIN env[j] = DOMAIN env[id]})]

\* The closure the methods of assembler id read and write: the one its own
\* factory call created.
Closure(env, id) == env[id]

\* One operation of the returned object (or a due timer) run on closure st.
Apply(im, oc, st, op) ==
  IF op.op = "write"
  THEN IF im = "clarinet" THEN ClWrite(st, op.chunk, oc) ELSE SjWrite(st, op.chunk, oc)
  ELSE IF op.op = "timer" THEN ClTimer(st, oc)
  ELSE IF im = "clarinet" THEN ClClose(st, oc) ELSE SjClose(st)

\* The acting assembler changed (counted up to MaxTurns).
Turned(t, id) ==
  [t EXCEPT !.actor = id,
            !.turns = IF t.actor \in {0, id} \/ t.turns = MaxTurns THEN t.turns
                      ELSE t.turns + 1]

\* Operation op of assembler id left r.
Applied(t, id, op, r) ==
  [Turned(t, id) EXCEPT !.env[id] = r.st,
                        !.inst[id].calls = @ \o r.calls,
                        !.inst[id].ops = Append(@, op)]

Perform(t, id, op) ==
  Applied(t, id, op, Apply(t.inst[id].impl, t.inst[id].onChunk, Closure(t.env, id), op))

\* The next chunk of at most n characters assembler a's caller writes.
NextChunk(a, n) ==
  SubSeq(TextOf(a.items), a.pos + 1, Min({a.pos + n, Len(TextOf(a.items))}))

\* The caller's bookkeeping after a write of chunk.
Wrote(t, id, chunk) ==
  [t EXCEPT !.inst[id].pos = @ + Len(chunk),
            !.inst[id].nwrites = @ + 1,
            !.inst[id].timers = IF t.inst[id].impl = "clarinet" THEN @ + 1 ELSE @]

WriteChunk(t, id, chunk) == Wrote(Perform(t, id, [op |-> "write", chunk |-> chunk]), id, chunk)

InitTwo ==
  /\ impl = "clarinet"
  /\ onChunk = TRUE
  /\ items = <<>>
  /\ pos = 0
  /\ nwrites = 0
  /\ closed = FALSE
  /\ cl = ClInit
  /\ sj = SjInit
  /\ timers = 0
  /\ calls = <<>>
  /\ errors = 0
  /\ last = [op |-> "create", from |-> 0, calls |-> <<>>, errs |-> 0]
  /\ two \in { NewSystem(NewInstance(ia, TRUE, sa), NewInstance(ib, TRUE, sb)) :
                 ia \in {"clarinet", "stream-json"}, sa \in TwoInputs,
                 ib \in {"clarinet", "stream-json"}, sb \in TwoInputs }

one == <<impl, onChunk, items, pos, nwrites, closed, cl, sj, timers, calls, errors, last>>

\* assembler.write(chunk) on assembler id.
TwoWrite(id, n) ==
  /\ ~two.inst[id].closed /\ two.inst[id].nwrites < MaxWrites
  /\ two.inst[id].pos < Len(TextOf(two.inst[id].items))
  /\ two' = WriteChunk(two, id, NextChunk(two.inst[id], n))
  /\ UNCHANGED one

\* A deferred report of assembler id runs.
TwoTimer(id) ==
  /\ two.inst[id].impl = "clarinet" /\ two.inst[id].timers > 0
  /\ two' = [Perform(two, id, [op |-> "timer"]) EXCEPT !.inst[id].timers = @ - 1]
  /\ UNCHANGED one

\* assembler.close() on assembler id.
TwoClose(id) ==
  /\ ~two.inst[id].closed
  /\ two' = [Perform(two, id, [op |-> "close"]) EXCEPT !.inst[id].closed = TRUE]
  /\ UNCHANGED one

NextTwo ==
  \E id \in 1..2 :
    \/ \E n \in Pieces : TwoWrite(id, n)
    \/ TwoTimer(id)
    \/ TwoClose(id)

SpecTwo == InitTwo /\ [][NextTwo]_vars

\* --------------------------------------------------------- observations
IsComplete(c) == c.f = "complete"
IsChunk(c) == c.f = "chunk"

\* The arguments of the onComplete (onChunk) invocations of a call list.
Completes(cs) ==
  LET s == SelectSeq(cs, IsComplete) IN [i \in 1..Len(s) |-> s[i].arg]

Chunks(cs) ==
  LET s == SelectSeq(cs, IsChunk) IN [i \in 1..Len(s) |-> s[i].arg]

Values(its) == [i \in 1..Len(its) |-> its[i].v]

WellFormed(its) == \A i \in 1..Len(its) : its[i].v # Undef

\* Item k of the stream occupies text[StartOf(k) + 1 .. EndOf(k)].
StartOf(k) == Len(TextOf(SubSeq(items, 1, k - 1)))
EndOf(k) == Len(TextOf(SubSeq(items, 1, k)))

AllWritten == pos = Len(text)

\* The depth-1 keys of item k whose values are fully assigned once the first
\* p characters of the text are in: a scalar counts when its token has
\* ended, a nested container when it has closed.
ShapeAt(k, p) ==
  LET s == JRun(JInit, SubSeq(text, StartOf(k) + 1, p), 1)
  IN IF s.stack = <<>> THEN <<>> ELSE s.stack[1].v

\* payload is a structural subset of the object v.
StructuralSubset(payload, v) ==
  /\ payload.k = "obj"
  /\ \A i \in 1..Len(payload.v) :
       LET key == payload.v[i][1]
           val == payload.v[i][2]
       IN /\ HasKey(v, key)
          /\ val.k \in {"num", "str"} => GetKey(v, key) = val

\* The whole text handed to a fresh assembler in one write().
OneShot ==
  IF impl = "clarinet" THEN ClWrite(ClInit, text, onChunk)
  ELSE SjWrite(SjInit, text, onChunk)

\* ---------------------------------------------------------------- claims
\* C1: when the writes add up to N well-formed top-level values and the
\* stream has been closed, onComplete has been invoked exactly N times and
\* the k-th invocation carried the k-th value.
C1_OncePerValueInOrder ==
  (WellFormed(items) /\ AllWritten /\ closed) => Completes(calls) = Values(items)

\* C2: fragmentation invariance.  Once a text of well-formed values is
\* written, however it was cut into write() calls, the onComplete values
\* so far are the ones a single write() of the whole text yields.
C2_FragmentationInvariance ==
  (WellFormed(items) /\ AllWritten) => Completes(calls) = Completes(OneShot.calls)

\* C2 witness: a value was completed by two writes cut right after the
\* backslash of an escape inside a string.
C2_Witness ==
  /\ WellFormed(items) /\ AllWritten /\ nwrites = 2
  /\ last.op = "write" /\ last.from > 0 /\ text[last.from] = BS
  /\ Len(Completes(calls)) = Len(items)

\* C3: recovery.  A malformed item followed at once by a well-formed one:
\* when everything is written and the stream is closed, onComplete was
\* invoked with the well-formed value.
C3_Recovery ==
  (Len(items) = 2 /\ items[1].v = Undef /\ items[1].kind # "truncated"
     /\ AllWritten /\ closed)
  => \E i \in 1..Len(calls) : calls[i] = Call("complete", items[2].v)

\* C4: no retraction.  After the onComplete of the first value no onChunk
\* payload carries a depth-1 key that only the first value has.
C4_NoRetraction ==
  \A i \in 1..Len(calls) :
    (items[1].v.k = "obj" /\ calls[i] = Call("complete", items[1].v))
    => \A j \in (i + 1)..Len(calls) :
         IsChunk(calls[j]) =>
           \A n \in 1..KeyCount(calls[j].arg) :
             LET key == calls[j].arg.v[n][1]
             IN HasKey(items[1].v, key) => (Len(items) = 2 /\ HasKey(items[2].v, key))

\* C5: dedup.  A write() that starts and ends inside the same top-level
\* object and leaves its shallow shape as it was invokes onChunk not once.
C5_Dedup ==
  \A k \in 1..Len(items) :
    (last.op = "write" /\ items[k].kind = "object"
       /\ StartOf(k) < last.from /\ pos < EndOf(k)
       /\ ShapeAt(k, last.from) = ShapeAt(k, pos))
    => Chunks(last.calls) = <<>>

\* C6: an onChunk payload delivered by a write() or a deferred report that
\* falls inside top-level object k is a structural subset of that object's
\* value.
C6_StructuralSubset ==
  \A k \in 1..Len(items) :
    (items[k].kind = "object"
       /\ \/ last.op = "write" /\ StartOf(k) <= last.from /\ pos <= EndOf(k)
          \/ last.op = "timer" /\ StartOf(k) < pos /\ pos < EndOf(k))
    => \A n \in 1..Len(Chunks(last.calls)) :
         StructuralSubset(Chunks(last.calls)[n], items[k].v)

\* C7: with onChunk registered and only objects that have a key in the
\* stream, each onComplete is preceded, after the onComplete before it, by
\* an onChunk with at least one key.
C7_ChunkBeforeComplete ==
  (onChunk /\ \A k \in 1..Len(items) : items[k].kind = "object" /\ KeyCount(items[k].v) > 0)
  => \A i \in 1..Len(calls) :
       IsComplete(calls[i]) =>
         \E j \in 1..(i - 1) :
           /\ IsChunk(calls[j]) /\ KeyCount(calls[j].arg) > 0
           /\ \A m \in j..i : ~IsComplete(calls[m]) \/ m = i

\* C8: no onChunk invocation carries a payload with zero keys.
C8_NoEmptyChunk ==
  \A i \in 1..Len(calls) : IsChunk(calls[i]) => KeyCount(calls[i].arg) > 0

\* C8 witness: a deferred report ran with onChunk registered while the
\* innermost open container, directly inside the top-level object, was an
\* empty array, and invoked nothing.
C8_Witness ==
  /\ impl = "clarinet" /\ onChunk /\ last.op = "timer" /\ last.calls = <<>>
  /\ cl.h.objectDepth = 1 /\ IsArrayRef(cl.h.heap, cl.h.current)
  /\ cl.h.heap[cl.h.current.v].v = <<>>

\* C9: a bare top-level array, written and closed, yields exactly one
\* onComplete, with the array.
C9_TopLevelArray ==
  (Len(items) = 1 /\ items[1].kind = "array" /\ AllWritten /\ closed)
  => Completes(calls) = <<items[1].v>>

\* C10: close() while a top-level object is still open reports an error
\* and invokes no onComplete.
C10_CloseWhileOpen ==
  \A k \in 1..Len(items) :
    (last.op = "close" /\ items[k].kind \in {"object", "truncated"}
       /\ StartOf(k) < pos /\ pos < EndOf(k) + (IF items[k].kind = "truncated" THEN 1 ELSE 0))
    => last.errs > 0 /\ Completes(last.calls) = <<>>

\* C11: a malformed first item never leads to an onComplete built from it:
\* whatever onComplete is invoked carries the value of the well-formed item
\* that follows it.
C11_NoCompleteFromMalformed ==
  (items[1].v = Undef /\ items[1].kind # "truncated")
  => \A i \in 1..Len(calls) :
       IsComplete(calls[i]) => (Len(items) = 2 /\ calls[i].arg = items[2].v)

\* C12: a stream made of one malformed or incomplete item, written in full
\* and closed without any onComplete, has led to at least one error report.
C12_AbandonedIsReported ==
  (Len(items) = 1 /\ items[1].v = Undef /\ AllWritten /\ closed
     /\ Completes(calls) = <<>>)
  => errors > 0

\* C13: once every item of a well-formed stream has been written and
\* completed, the assembler holds nothing of them: the raw-text buffer is
\* empty and, in the clarinet assembler, so are rootObjects, current and
\* stack.
C13_NothingRetained ==
  (WellFormed(items) /\ AllWritten /\ Completes(calls) = Values(items))
  => IF impl = "clarinet"
     THEN /\ cl.h.inputBuffer = <<>> /\ cl.h.rootObjects = <<>>
          /\ cl.h.current = Null /\ cl.h.stack = <<>>
     ELSE sj.buffer = <<>>

\* The calls so far followed by those of one more operation.
Replayed(r, n) == [st |-> n.st, calls |-> r.calls \o n.calls]

\* What ops invoke, in order, on an assembler that receives them alone.
RECURSIVE Replay(_, _, _, _, _)
Replay(im, oc, r, ops, i) ==
  IF i > Len(ops) THEN r.calls
  ELSE Strict(r, Replay(im, oc, Replayed(r, Apply(im, oc, r.st, ops[i])), ops, i + 1))

Alone(a) == Replay(a.impl, a.onChunk, [st |-> NewClosure(a.impl), calls |-> <<>>], a.ops, 1)

OtherOneShot ==
  IF impl = "clarinet" THEN SjWrite(SjInit, text, onChunk)
  ELSE ClWrite(ClInit, text, onChunk)

\* C15: once a text made of well-formed top-level objects is written, the
\* onComplete values of the assembler under test are those the assembler of
\* the other kind delivers for the same text.
C15_SameCompletes ==
  ((\A k \in 1..Len(items) : items[k].kind = "object") /\ AllWritten)
  => Completes(calls) = Completes(OtherOneShot.calls)

\* What the operations run on assembler a invoke on an assembler created
\* without onChunk.
Silent(a) == Replay(a.impl, FALSE, [st |-> NewClosure(a.impl), calls |-> <<>>], a.ops, 1)

\* The two halves of C16 for what the silent assembler invoked.
SameCompletesNoChunks(cs, silent) ==
  Completes(silent) = Completes(cs) /\ Chunks(silent) = <<>>

\* C16: an assembler created with onChunk and one created without it that
\* receive the same operations deliver the same onComplete values in the
\* same order, and the one without onChunk invokes no partial callback.
C16_OnChunkOptional ==
  \A id \in 1..2 : SameCompletesNoChunks(two.inst[id].calls, Silent(two.inst[id]))

\* C16 witness: a closed stream-json assembler with onChunk that reported
\* chunks and completed every value of a two-object stream in two writes.
C16_Witness ==
  \E id \in 1..2 :
    /\ two.inst[id].impl = "stream-json" /\ two.inst[id].onChunk
    /\ two.inst[id].closed /\ two.inst[id].nwrites = 2
    /\ Chunks(two.inst[id].calls) # <<>>
    /\ Completes(two.inst[id].calls) = Values(two.inst[id].items)
    /\ Len(two.inst[id].items) = 2

\* C17: while a top-level array is still open (its closing bracket is not
\* written yet), onComplete has not been invoked.
C17_OnlyAtDepthZero ==
  (Len(items) = 1 /\ items[1].kind = "array" /\ pos < Len(text))
  => Completes(calls) = <<>>

\* C18: a stream that is one bare scalar, written and closed, has yielded
\* exactly one onComplete, with the scalar.
C18_TopLevelScalar ==
  (Len(items) = 1 /\ items[1].kind = "scalar" /\ AllWritten /\ closed)
  => Completes(calls) = <<items[1].v>>

\* C19: with onChunk registered, the first object completed and a key of
\* the second object fully written, the second object has got an onChunk:
\* from the write() that reached it (stream-json), or after the first
\* onComplete once every deferred report has run (clarinet).
C19_SnapshotReset ==
  (onChunk /\ Len(items) = 2 /\ WellFormed(items)
     /\ Completes(calls) = <<items[1].v>>
     /\ StartOf(2) < pos /\ pos < EndOf(2) /\ ShapeAt(2, pos) # <<>>)
  => IF impl = "clarinet"
     THEN (last.op = "timer" /\ timers = 0)
          => \E i \in 1..Len(calls) :
               /\ IsComplete(calls[i])
               /\ \E j \in (i + 1)..Len(calls) : IsChunk(calls[j])
     ELSE (last.op = "write" /\ last.from <= StartOf(2)) => Chunks(last.calls) # <<>>

\* C20: when the clarinet assembler has been given one malformed object
\* whose error is raised at its last character or at close(), and the
\* error was reported, the container stack, the current container, the
\* pending key and the depth counter are back at their initial values.
C20_ResetOnError ==
  (impl = "clarinet" /\ Len(items) = 1
     /\ items[1].kind \in {"trailing_comma", "truncated", "unterminated_string"}
     /\ AllWritten /\ errors > 0)
  => /\ cl.h.stack = <<>> /\ cl.h.current = Null
     /\ cl.h.key = Null /\ cl.h.objectDepth = 0

\* The closure of a clarinet assembler that got everything written so far
\* in one write(), and the partial object a report computes from it.
UpToNow == ClWrite(ClInit, SubSeq(text, 1, pos), onChunk).st.h

LatestPartial(h) == Deref(h.heap, Obj(extractPartialFromBuffer(h)))

\* C21: a deferred report that invokes onChunk delivers the partial object
\* of everything written up to the most recent write(), and no two onChunk
\* invocations in a row carry the same payload.
C21_DeferredReports ==
  (impl = "clarinet")
  => /\ (last.op = "timer" /\ last.calls # <<>>)
        => last.calls = <<Call("chunk", LatestPartial(UpToNow))>>
     /\ \A i \in 1..Len(Chunks(calls)) - 1 : Chunks(calls)[i] # Chunks(calls)[i + 1]

\* C21 witness: two write() calls left two reports pending; the first of
\* them has now run, delivered a chunk, and the second is still pending.
C21_Witness ==
  /\ impl = "clarinet" /\ onChunk /\ nwrites = 2 /\ timers = 1
  /\ last.op = "timer" /\ last.calls # <<>>

\* Whether, once the first p characters of the text are in, a container
\* nested in item k is open.
NestedOpenAt(k, p) == Len(JRun(JInit, SubSeq(text, StartOf(k) + 1, p), 1).stack) >= 2

\* C22: an onChunk payload delivered while a container nested in top-level
\* object k is open holds only keys whose values are fully assigned by
\* then; the key of the open container is not among them.
C22_OpenContainerOmitted ==
  \A k \in 1..Len(items) :
    (items[k].kind = "object" /\ last.op \in {"write", "timer"}
       /\ StartOf(k) <= last.from /\ StartOf(k) < pos /\ pos < EndOf(k)
       /\ NestedOpenAt(k, pos))
    => \A n \in 1..Len(Chunks(last.calls)) :
         \A m \in 1..KeyCount(Chunks(last.calls)[n]) :
           HasKey(Obj(ShapeAt(k, pos)), Chunks(last.calls)[n].v[m][1])

\* C23: once a text made of well-formed top-level objects is written to
\* the clarinet assembler, the onComplete values are exactly the values
\* the text denotes, key by key.
C23_ExactFields ==
  (impl = "clarinet" /\ (\A k \in 1..Len(items) : items[k].kind = "object") /\ AllWritten)
  => Completes(calls) = Values(items)

\* The containers the clarinet assembler tracks as open: the entries of
\* stack that are containers, and current.
Tracked(h) ==
  Cardinality({i \in 1..Len(h.stack) : h.stack[i] # Null})
    + (IF h.current # Null THEN 1 ELSE 0)

\* C24: while the clarinet assembler is fed well-formed objects and arrays
\* and is not closed, the containers it tracks number the containers the tokenizer has
\* announced open and not yet closed, and stack is empty and current null
\* exactly when there is none.
C24_StackMatchesDepth ==
  (impl = "clarinet" /\ ~closed
     /\ \A k \in 1..Len(items) : items[k].kind \in {"object", "array"})
  => /\ Tracked(cl.h) = cl.parser.depth
     /\ (cl.h.stack = <<>> /\ cl.h.current = Null) <=> (cl.parser.depth = 0)

\* The tokenizer has not yet emitted the event for the value that follows
\* the last colon: it expects a value, or is inside one, or has read a
\* '{' or '[' whose open event comes with the next character, or holds
\* the text of a value that the next ',' or '}' will emit.
ValueAwaited(p) ==
  \/ p.state \in {"VALUE", "STRING", "NUMBER_DIGIT", "OPEN_OBJECT", "OPEN_ARRAY"}
  \/ p.textNode # Undef
  \/ p.numberNode # <<>>

Unfinished == PartialScan(ScanInit, sj.buffer, 1)

\* C26: when the stream-json assembler completes the unfinished tail of a
\* well-formed text, the number of closing braces tryParsePartial appends
\* is the number of braces open outside strings.
C26_BracesOutsideStrings ==
  (impl = "stream-json" /\ onChunk /\ WellFormed(items) /\ Unfinished.braceCount > 0)
  => Len(CloseBraces(Trim(Unfinished.current))) = Len(Trim(Unfinished.current)) + Unfinished.braceCount

\* The offset just after the last brace-balanced segment of buffer, found
\* by one scan of the whole buffer.
EndOfLastSegment(buffer) == Len(buffer) - Len(extractCompleteJsonObjects(buffer).incomplete)

\* The text the cursor of the stream-json assembler has not passed.
Unprocessed == SubSeq(sj.buffer, sj.processedLength + 1, Len(sj.buffer))

\* C27: in the stream-json assembler processedLength stays within the
\* buffer, is the offset just after the last brace-balanced segment, leaves
\* no complete segment behind it, never decreases, and close() delivers no
\* onComplete.
C27_Cursor ==
  /\ [](impl = "stream-json"
         => /\ 0 <= sj.processedLength /\ sj.processedLength <= Len(sj.buffer)
            /\ sj.processedLength = EndOfLastSegment(sj.buffer)
            /\ extractCompleteJsonObjects(Unprocessed).complete = <<>>
            /\ last.op = "close" => Completes(last.calls) = <<>>)
  /\ [][sj.processedLength' >= sj.processedLength]_vars

\* After two writes the cursor stands just after a segment with text
\* behind it, and close() has run on that text.
C27_Witness ==
  /\ impl = "stream-json" /\ nwrites = 2 /\ last.op = "close"
  /\ sj.processedLength > 0 /\ sj.processedLength < Len(sj.buffer)

\* C28: once close() has returned on the clarinet assembler, a deferred
\* report that runs afterwards delivers no callback.
C28_SilentAfterClose ==
  (impl = "clarinet" /\ closed /\ last.op = "timer") => last.calls = <<>>

====
